---------------------------- MODULE Spec2Model ----------------------------
(***************************************************************************)
(* Model of src/Core/TaskScheduling.py: Task, TaskChain, Worker,           *)
(* ProcessCompositor, TaskScheduler and CoreMultiprocessing.               *)
(*                                                                         *)
(* Modelling conventions                                                   *)
(*  - Python objects keep their identity when they travel through a queue  *)
(*    (a Task put on a queue is the Task the caller holds), and a Worker's *)
(*    _state is the value the compositor reads through record.worker.state.*)
(*  - Logging (Worker._log, the Logger objects) and the Profiler are       *)
(*    collaborators: a log call is a no-op, put_processes is recorded.     *)
(*  - heapq is CPython's implementation (the C accelerator: sifting swaps  *)
(*    entries, a failed comparison leaves the list as it is at that point).*)
(*  - time.monotonic() is the integer clock `now`.                         *)
(*  - The module is taken as importable and the scheduler as constructed,  *)
(*    with TaskScheduler._dispatcher and the compositor's _dispatcher_loop *)
(*    running; the scheduler's loop, the compositor's loop and each worker *)
(*    are separate processes whose steps interleave. TimeoutSpec and       *)
(*    FacadeSpec start earlier, with TaskScheduler._instance still None.   *)
(*  - time_type_dict (imported from Core.CoreUtils) is read from           *)
(*    src/source/Core/CoreUtils.py; a str is the sequence of its           *)
(*    characters.                                                          *)
(***************************************************************************)
EXTENDS Integers, Sequences, FiniteSets, TLC

\* ------------------------------------------------------------------ bounds
MaxTime == 1
MaxPrio == 1
MaxResults == 2
MaxCounter == 2
\* the configuration given to TaskScheduler.get_instance
MaxWorkers == 3
MaxAsyncWorkers == 2
NWorkers == MaxWorkers + MaxAsyncWorkers

Tasks == 1..3
Workers == 1..NWorkers
NoTask == 0
Keys == {"x", "y"}
Absent == -1

\* ------------------------------------------------------------ Python values
\* Every Python value the model needs is a record [kind, n].
PyNone == [kind |-> "none", n |-> 0]
PyInt(n) == [kind |-> "int", n |-> n]
PyMapX(n) == [kind |-> "mapx", n |-> n]
PySeq1(n) == [kind |-> "seq1", n |-> n]
PyStr(n) == [kind |-> "str", n |-> n]
PyEmptyMap == [kind |-> "map0", n |-> 0]
PyCoroutine(t) == [kind |-> "coro", n |-> t]
PyExc(name) == [kind |-> name, n |-> 0]

ExcKinds == {"ValueError", "TypeError", "RuntimeError", "AttributeError", "KeyError",
             "Exception"}
IsExc(v) == v.kind \in ExcKinds

\* bool(v) as Python evaluates `if error:` / `if self.exception:`
Truthy(v) ==
    CASE v.kind = "none" -> FALSE
      [] v.kind = "int" -> v.n # 0
      [] OTHER -> TRUE

\* ------------------------------------------------------------ the callables
SyncFuncs == {"add", "fail", "double", "add_ten", "to_string"}
AsyncFuncs == {"aadd"}
Funcs == SyncFuncs \cup AsyncFuncs

EmptyKwargs == [k \in Keys |-> Absent]

Ret(v) == [kind |-> "ret", val |-> v]
Raise(name) == [kind |-> "raise", val |-> PyExc(name)]

\* What calling (or, for a coroutine function, awaiting) the callable yields.
Call(f, kw) ==
    CASE f = "add" -> Ret(PyInt(5))
      [] f = "aadd" -> Ret(PyInt(5))
      [] f = "fail" -> Raise("ValueError")
      [] f = "double" -> Ret(PyMapX(10))
      [] f = "add_ten" ->
            IF kw["x"] = Absent THEN Raise("TypeError")
            ELSE Ret(PyMapX(kw["x"] + 10))
      [] f = "to_string" ->
            IF kw["x"] = Absent THEN Raise("TypeError")
            ELSE Ret(PyStr(kw["x"]))


\* ---------------------------------------------------------------- Task
\* Task.__init__
NewTask(f, p, deps, t0) ==
    [alive |-> TRUE, func |-> f, kwargs |-> EmptyKwargs, priority |-> p,
     enqueue_time |-> t0, result |-> PyNone, exception |-> PyNone,
     event |-> FALSE, next |-> NoTask, past |-> NoTask, arg_deps |-> deps,
     prev_result |-> PyNone, resolved |-> (deps = <<>>)]

\* A slot in which no Task has been constructed yet.
NoTaskYet == [NewTask("add", 0, <<>>, 0) EXCEPT !.alive = FALSE]

\* Task.is_async: inspect.iscoroutinefunction(func)
IsAsync(ts, t) == ts[t].func \in AsyncFuncs

\* a priority that decays with the waiting time instead of growing
PriorityDecaying(ts, t, clock) == ts[t].priority - (clock - ts[t].enqueue_time)

\* Task.priority
Priority(ts, t, clock) == ts[t].priority + (clock - ts[t].enqueue_time)

\* Task.put_result
PutResult(ts, t, v) ==
    IF ts[t].result = PyNone
    THEN [ts EXCEPT ![t].result = v, ![t].event = TRUE]
    ELSE ts

\* Task.put_exception
PutException(ts, t, e) ==
    IF ts[t].exception = PyNone
    THEN [ts EXCEPT ![t].exception = e, ![t].event = TRUE]
    ELSE ts

\* Task.get: result_event.wait() returns once the event is set
GetReady(ts, t) == ts[t].event

\* Task.get, after the wait
Get(ts, t) ==
    IF Truthy(ts[t].exception)
    THEN [kind |-> "raise", val |-> ts[t].exception]
    ELSE Ret(ts[t].result)

\* `self._prev_result is Iterable`: identity with the typing.Iterable object,
\* which no result value is.
IsIterable(v) == FALSE

\* `self._prev_result is Dict`: identity with the typing.Dict object.
IsDict(v) == FALSE

\* `key not in prev_result`, prev_result[key], len(prev_result), prev_result[i]
Contains(v, key) == v.kind = "mapx" /\ key = "x"
SeqLen(v) == IF v.kind = "map0" THEN 0 ELSE 1

\* the two loops of Task.resolve over arg_deps, from index i (1-based) on:
\* [kwargs, err] with err the exception raised, or "" when the loop ends.
RECURSIVE CopyDeps(_, _, _, _, _)
CopyDeps(v, deps, kw, i, asDict) ==
    IF i > Len(deps) THEN [kwargs |-> kw, err |-> ""]
    ELSE IF asDict
         THEN IF ~Contains(v, deps[i])
              THEN [kwargs |-> kw, err |-> "RuntimeError"]
              ELSE CopyDeps(v, deps, [kw EXCEPT ![deps[i]] = v.n], i + 1, asDict)
         ELSE IF i - 1 >= SeqLen(v)
              THEN [kwargs |-> kw, err |-> "RuntimeError"]
              ELSE IF v.kind \in {"mapx", "map0"}
                   THEN [kwargs |-> kw, err |-> "KeyError"]
                   ELSE CopyDeps(v, deps, [kw EXCEPT ![deps[i]] = v.n], i + 1, asDict)

\* Task.resolve blocks in self._past.get() until the predecessor's event is set
ResolveReady(ts, t) ==
    IF ts[t].prev_result # PyNone \/ ts[t].past = NoTask THEN TRUE
    ELSE GetReady(ts, ts[t].past)

\* Task.resolve: [ts, out], out being Ret(None) or the exception raised
Resolve(ts, t) ==
    LET needGet == ts[t].prev_result = PyNone
        got == IF ~needGet THEN Ret(ts[t].prev_result)
               ELSE IF ts[t].past = NoTask
                    THEN Raise("AttributeError")
                    ELSE Get(ts, ts[t].past)
    IN IF got.kind = "raise"
       THEN [ts |-> ts, out |-> got]
       ELSE LET ts1 == [ts EXCEPT ![t].prev_result = got.val]
                prev == got.val
            IN IF IsIterable(prev)
               THEN LET c == CopyDeps(prev, ts[t].arg_deps, ts[t].kwargs, 1, IsDict(prev))
                    IN IF c.err # ""
                       THEN [ts |-> [ts1 EXCEPT ![t].kwargs = c.kwargs],
                             out |-> Raise(c.err)]
                       ELSE [ts |-> [ts1 EXCEPT ![t].kwargs = c.kwargs,
                                                ![t].resolved = TRUE],
                             out |-> Ret(PyNone)]
               ELSE [ts |-> [ts1 EXCEPT ![t].resolved = TRUE], out |-> Ret(PyNone)]

\* Task._run_sync blocks exactly when its resolve() does
RunSyncReady(ts, t) == IF ts[t].resolved THEN TRUE ELSE ResolveReady(ts, t)

\* Task._run_sync: [ts, out, called]; called says the callable was invoked
RunSync(ts, t) ==
    LET r == IF ts[t].resolved THEN [ts |-> ts, out |-> Ret(PyNone)]
             ELSE Resolve(ts, t)
    IN IF r.out.kind = "raise"
       THEN [ts |-> r.ts, out |-> r.out, called |-> FALSE]
       ELSE [ts |-> r.ts, out |-> Call(ts[t].func, r.ts[t].kwargs), called |-> TRUE]

\* Task._run_async, called without being awaited (as Task.run and the worker's
\* run_in_executor do): the coroutine object, none of its body run.
RunAsyncUnawaited(ts, t) == Ret(PyCoroutine(t))

\* Task.run
Run(ts, t) ==
    IF IsAsync(ts, t)
    THEN Ret(PyExc("RuntimeError"))
    ELSE RunAsyncUnawaited(ts, t)

\* ------------------------------------------------------------------- str
\* A Python str is the sequence of its characters, wrapped as a value.
PyText(chars) == [kind |-> "text", n |-> chars]

DigitChars == <<"0", "1", "2", "3", "4", "5", "6", "7", "8", "9">>

\* str.isdigit
IsDigit(s) == s # <<>> /\ \A i \in 1..Len(s) : \E d \in 1..10 : DigitChars[d] = s[i]

\* int(s) of a str of decimal digits
RECURSIVE ParseInt(_)
ParseInt(s) ==
    IF s = <<>> THEN 0
    ELSE 10 * ParseInt(SubSeq(s, 1, Len(s) - 1))
         + (CHOOSE d \in 0..9 : DigitChars[d + 1] = s[Len(s)])

\* str.lower, over the letters the inputs are written with
Lower(s) ==
    LET to_lower == ("D" :> "d") @@ ("H" :> "h") @@ ("I" :> "i") @@ ("M" :> "m") @@
                    ("N" :> "n") @@ ("S" :> "s")
    IN [i \in 1..Len(s) |-> IF s[i] \in DOMAIN to_lower THEN to_lower[s[i]] ELSE s[i]]

\* str.split(): the maximal runs of non-blank characters of s, cur being the
\* run under way and acc the runs found
RECURSIVE SplitFrom(_, _, _)
SplitFrom(s, cur, acc) ==
    IF s = <<>> THEN IF cur = <<>> THEN acc ELSE Append(acc, cur)
    ELSE IF Head(s) = " "
         THEN SplitFrom(Tail(s), <<>>, IF cur = <<>> THEN acc ELSE Append(acc, cur))
         ELSE SplitFrom(Tail(s), Append(cur, Head(s)), acc)

Split(s) == SplitFrom(s, <<>>, <<>>)

\* `a in b` for two strs: a is a substring of b
IsIn(a, b) ==
    IF Len(a) > Len(b) THEN FALSE
    ELSE \E i \in 0..(Len(b) - Len(a)) : SubSeq(b, i + 1, i + Len(a)) = a

\* the unit words, by their spelling
Word ==
    [s |-> <<"s">>,
     second |-> <<"s", "e", "c", "o", "n", "d">>,
     seconds |-> <<"s", "e", "c", "o", "n", "d", "s">>,
     m |-> <<"m">>,
     minute |-> <<"m", "i", "n", "u", "t", "e">>,
     minutes |-> <<"m", "i", "n", "u", "t", "e", "s">>,
     h |-> <<"h">>,
     hour |-> <<"h", "o", "u", "r">>,
     hours |-> <<"h", "o", "u", "r", "s">>,
     d |-> <<"d">>,
     day |-> <<"d", "a", "y">>,
     days |-> <<"d", "a", "y", "s">>]

\* CoreUtils.time_type_dict
time_type_dict ==
    (Word.s :> 1) @@ (Word.seconds :> 1) @@ (Word.second :> 1) @@
    (Word.m :> 60) @@ (Word.minutes :> 60) @@ (Word.minute :> 60) @@
    (Word.h :> 3600) @@ (Word.hours :> 3600) @@ (Word.hour :> 3600) @@
    (Word.d :> 86400) @@ (Word.days :> 86400) @@ (Word.day :> 86400)

\* dict.get(key, default)
DictGet(d, key, default) == IF key \in DOMAIN d THEN d[key] ELSE default

\* ProcessCompositor.covert_to_timeout(amt); amt.split() of a value that is
\* no str raises AttributeError
CovertToTimeout(amt) ==
    IF amt.kind # "text" THEN Raise("AttributeError")
    ELSE LET split_amt == Split(amt.n)
         IN IF Len(split_amt) # 2 THEN Raise("Exception")
            ELSE IF split_amt[2] \notin DOMAIN time_type_dict \/ ~IsDigit(split_amt[1])
                 THEN Raise("Exception")
                 ELSE IF IsIn(Lower(split_amt[2]), Word.days) \/ IsIn(Lower(split_amt[2]), Word.hours)
                      THEN Raise("Exception")
                      ELSE Ret(PyInt(ParseInt(split_amt[1])
                                     * DictGet(time_type_dict, Lower(split_amt[1]), 1)))

\* ------------------------------------------------------------- TaskChain
ChainLimit == 15
NoChain == [tasks |-> <<>>, head |-> NoTask, tail |-> NoTask]

\* the loop of TaskChain.__init__ from args[i] on, tail being the current tail
RECURSIVE LinkFrom(_, _, _, _)
LinkFrom(ts, args, i, tail) ==
    IF i > Len(args) THEN ts
    ELSE IF tail = NoTask
         THEN LinkFrom(ts, args, i + 1, args[i])
         ELSE LinkFrom([ts EXCEPT ![tail].next = args[i], ![args[i]].past = tail],
                       args, i + 1, args[i])

\* a length check that already refuses ChainLimit tasks
ChainTooLongAtLimit(args) == Len(args) >= ChainLimit

\* TaskChain.__init__ raises when given more than 15 tasks
ChainTooLong(args) == Len(args) > ChainLimit

\* TaskChain.unzip
RECURSIVE Walk(_, _, _)
Walk(ts, cur, fuel) ==
    IF cur = NoTask \/ fuel = 0 THEN <<>>
    ELSE <<cur>> \o Walk(ts, ts[cur].next, fuel - 1)

Unzip(ts, c) == Walk(ts, c.head, ChainLimit + 1)


\* ------------------------------------------------------------- heapq
\* a < b on the tuples (priority, priority, task) that submit() pushes:
\* "lt", "ge", or "err" when the comparison reaches the two Task objects,
\* which define no ordering (TypeError).
TupleLt(a, b) ==
    IF a.k1 # b.k1 THEN (IF a.k1 < b.k1 THEN "lt" ELSE "ge")
    ELSE IF a.k2 # b.k2 THEN (IF a.k2 < b.k2 THEN "lt" ELSE "ge")
    ELSE IF a.task = b.task THEN "ge"
    ELSE "err"

Swap(h, i, j) == [h EXCEPT ![i] = h[j], ![j] = h[i]]

\* heapq siftdown (positions are 1-based here): [heap, err]
RECURSIVE SiftDown(_, _, _)
SiftDown(h, startpos, pos) ==
    IF pos <= startpos THEN [heap |-> h, err |-> FALSE]
    ELSE LET parentpos == pos \div 2
             cmp == TupleLt(h[pos], h[parentpos])
         IN IF cmp = "err" THEN [heap |-> h, err |-> TRUE]
            ELSE IF cmp = "ge" THEN [heap |-> h, err |-> FALSE]
            ELSE SiftDown(Swap(h, pos, parentpos), startpos, parentpos)

\* heapq siftup: bubble the smaller child up to a leaf, then siftdown
RECURSIVE SiftUpFrom(_, _, _)
SiftUpFrom(h, startpos, pos) ==
    IF 2 * pos > Len(h) THEN SiftDown(h, startpos, pos)
    ELSE LET left == 2 * pos
             cmp == IF left + 1 <= Len(h) THEN TupleLt(h[left], h[left + 1]) ELSE "lt"
             childpos == IF cmp = "lt" THEN left ELSE left + 1
         IN IF cmp = "err" THEN [heap |-> h, err |-> TRUE]
            ELSE SiftUpFrom(Swap(h, pos, childpos), startpos, childpos)

\* heapq.heappush: [heap, err]
HeapPush(h, item) == SiftDown(Append(h, item), 1, Len(h) + 1)

\* heapq.heappop of a non-empty heap: [heap, err, item]; when a comparison
\* fails the removed top entry is returned to nobody.
HeapPop(h) ==
    LET n == Len(h)
        lastelt == h[n]
        h1 == SubSeq(h, 1, n - 1)
    IN IF n = 1 THEN [heap |-> h1, err |-> FALSE, item |-> lastelt]
       ELSE LET r == SiftUpFrom([h1 EXCEPT ![1] = lastelt], 1, 1)
            IN [heap |-> r.heap, err |-> r.err, item |-> h[1]]

\* ------------------------------------------------------------ TaskScheduler
\* the tuple TaskScheduler.submit builds
PqEntry(ts, t, clock) ==
    [k1 |-> Priority(ts, t, clock), k2 |-> Priority(ts, t, clock), task |-> t]

\* TaskScheduler.submit: [pq, counter, raised]
Submit(q, cnt, ts, t, clock) ==
    LET r == HeapPush(q, PqEntry(ts, t, clock))
    IN IF r.err
       THEN [pq |-> r.heap, counter |-> cnt, raised |-> "TypeError"]
       ELSE [pq |-> r.heap, counter |-> cnt + 1, raised |-> ""]

\* ProcessCompositor.retrieve: drains the result queue into the tasks
RECURSIVE Retrieve(_, _)
Retrieve(ts, rq) ==
    IF rq = <<>> THEN ts
    ELSE LET m == Head(rq)
         IN Retrieve(IF Truthy(m.error)
                     THEN PutException(ts, m.task, m.error)
                     ELSE PutResult(ts, m.task, m.result),
                     Tail(rq))

\* TaskScheduler._instance is None; an instance is known by the number of
\* its construction
NoInstance == 0
PyInstance(id) == [kind |-> "TaskScheduler", n |-> id]

Unconstructed ==
    [id |-> NoInstance, made |-> 0, max_workers |-> PyNone,
     max_async_workers |-> PyNone, idle_timeout |-> PyNone]

\* TaskScheduler.get_instance(max_workers, max_async_workers,
\* max_tasks_per_loop) with the class in state inst: [instance, raised,
\* returned]. TaskScheduler.__init__ takes the third argument as idle_timeout
\* and ProcessCompositor.__init__ converts it.
GetInstanceOutcome(inst, max_workers, max_async_workers, max_tasks_per_loop) ==
    IF inst.id = NoInstance
    THEN LET idle_timeout == CovertToTimeout(max_tasks_per_loop)
         IN IF idle_timeout.kind = "raise"
            THEN [instance |-> inst, raised |-> idle_timeout.val.kind,
                  returned |-> PyNone]
            ELSE [instance |-> [id |-> inst.made + 1, made |-> inst.made + 1,
                                max_workers |-> max_workers,
                                max_async_workers |-> max_async_workers,
                                idle_timeout |-> idle_timeout.val],
                  raised |-> "", returned |-> PyInstance(inst.made + 1)]
    ELSE [instance |-> inst, raised |-> "", returned |-> PyInstance(inst.id)]

\* the values given as a timeout: None, an int, and the strs "<numeral>
\* <unit>" of every unit, some with no blank or with a third token
TimeoutArgs ==
    LET numerals == {<<"5">>, <<"1", "2">>, <<"-", "5">>}
        units == DOMAIN time_type_dict \cup {<<"M", "I", "N">>, <<"S">>}
        texts == {n \o <<" ">> \o u : n \in numerals, u \in units}
                 \cup {<<"5">> \o u : u \in {Word.s, Word.m}}
                 \cup {<<"5", " ">> \o u \o <<" ">> \o u : u \in {Word.s, Word.m}}
    IN {PyNone, PyInt(5)} \cup {PyText(x) : x \in texts}

\* the scheduler of get_instance(MaxWorkers, MaxAsyncWorkers, "5 minutes")
Constructed ==
    GetInstanceOutcome(Unconstructed, PyInt(MaxWorkers), PyInt(MaxAsyncWorkers),
                       PyText(<<"5", " ">> \o Word.minutes)).instance

VARIABLES
    now,            \* time.monotonic()
    tasks,          \* Task objects, by slot
    invoked,        \* per Task: its callable has been invoked
    chain,          \* the TaskChain object: [tasks, head, tail], or no chain
    pq,             \* TaskScheduler._pq
    counter,        \* TaskScheduler._counter
    instance,       \* TaskScheduler._instance and the configuration it was built with
    timeout_arg,    \* the value a caller holds to give as a timeout
    sched_alive,    \* the TaskScheduler._dispatcher coroutine is running
    task_queue,     \* ProcessCompositor.task_queue
    result_queue,   \* ProcessCompositor.result_queue
    sync_workers,   \* ProcessCompositor.sync_workers
    async_workers,  \* ProcessCompositor.async_workers
    pid_pool,       \* ProcessCompositor.pid_pool
    pool_pc,        \* position of _dispatcher_loop
    stop_call,      \* position of the caller inside ProcessCompositor.stop
    profiled,       \* last list given to Profiler.put_processes
    workers,        \* Worker processes, by pid
    raised,         \* what the last call raised to its caller ("" = nothing)
    returned,       \* what the last direct call of a Task method returned
    chain_call,     \* position of the caller inside CoreMultiprocessing.push_chain
    arrival,        \* the pending Tasks in the order submit() received them
    pushed          \* the Tasks their caller has submitted

vars == <<now, tasks, invoked, chain, pq, counter, instance, timeout_arg, sched_alive, task_queue,
          result_queue, sync_workers, async_workers, pid_pool, pool_pc,
          stop_call, profiled, workers, raised, returned, chain_call, arrival, pushed>>

task_vars == <<tasks, invoked, chain>>
sched_vars == <<pq, counter, instance, timeout_arg, sched_alive, arrival>>
pool_vars == <<sync_workers, async_workers, pid_pool, pool_pc, profiled, stop_call>>
call_vars == <<raised, returned, chain_call, pushed>>

\* ---------------------------------------------------------------- helpers
Range(q) == {q[i] : i \in 1..Len(q)}
Min2(a, b) == IF a < b THEN a ELSE b

RECURSIVE Remove(_, _)
\* list.remove(x): drops the first occurrence
Remove(q, x) ==
    IF q = <<>> THEN <<>>
    ELSE IF Head(q) = x THEN Tail(q)
    ELSE <<Head(q)>> \o Remove(Tail(q), x)

\* ProcessState, Worker.__init__; stop_req records that the set _stop_event
\* was set by stop() (and not by resume())
NoWorker ==
    [alive |-> FALSE, is_async |-> FALSE, state |-> "IDLE", stop_event |-> FALSE,
     stop_req |-> FALSE, queue |-> <<>>, buffer |-> NoTask, cur |-> NoTask,
     pc |-> "top"]

NewWorker(is_async) == [NoWorker EXCEPT !.alive = TRUE, !.is_async = is_async]

\* the Task object in slot t is referenced by nothing but its caller
Unreferenced(t) ==
    /\ \A i \in 1..Len(pq) : pq[i].task # t
    /\ t \notin Range(task_queue)
    /\ \A i \in 1..Len(result_queue) : result_queue[i].task # t
    /\ \A w \in Workers :
          /\ t \notin Range(workers[w].queue)
          /\ workers[w].cur # t
          /\ workers[w].buffer # t
    /\ \A u \in Tasks : tasks[u].next # t /\ tasks[u].past # t
    /\ t \notin Range(chain.tasks)

\* the state after construction of the scheduler, its compositor and the
\* callers' Task objects ts
InitOf(ts, inst, arg) ==
    /\ now = 0
    /\ tasks = ts
    /\ invoked = [t \in Tasks |-> FALSE]
    /\ chain = NoChain
    /\ pq = <<>>
    /\ counter = 0
    /\ instance = inst
    /\ timeout_arg = arg
    /\ sched_alive = TRUE
    /\ task_queue = <<>>
    /\ result_queue = <<>>
    /\ sync_workers = <<>>
    /\ async_workers = <<>>
    /\ pid_pool = {}
    /\ pool_pc = [pc |-> "top", est |-> 0, err |-> ""]
    /\ stop_call = [pc |-> "none", joined |-> {}]
    /\ profiled = {}
    /\ workers = [w \in Workers |-> NoWorker]
    /\ raised = ""
    /\ returned = PyNone
    /\ chain_call = "none"
    /\ arrival = <<>>
    /\ pushed = {}

\* the state once TaskScheduler.get_instance has constructed the scheduler
InitWith(ts) == InitOf(ts, Constructed, PyNone)

\* ------------------------------------------------------------ the callers
\* time.monotonic() advances
AdvanceTime ==
    /\ now < MaxTime
    /\ now' = now + 1
    /\ UNCHANGED <<task_vars, sched_vars, task_queue, result_queue, pool_vars,
                   workers, call_vars>>

\* a caller constructs Task(name, f, base_priority=p, arg_deps=deps)
CreateTask(t, f, p, deps) ==
    /\ Unreferenced(t)
    /\ tasks' = [tasks EXCEPT ![t] = NewTask(f, p, deps, now)]
    /\ invoked' = [invoked EXCEPT ![t] = FALSE]
    /\ pushed' = pushed \ {t}
    /\ UNCHANGED <<now, chain, sched_vars, task_queue, result_queue, pool_vars,
                   workers, raised, returned, chain_call>>

\* CoreMultiprocessing.push_task(t); a caller submits a Task once
PushTask(t) ==
    /\ tasks[t].alive
    /\ t \notin pushed
    /\ LET g == GetInstanceOutcome(instance, PyNone, PyNone, PyNone)
           r == Submit(pq, counter, tasks, t, now)
       IN /\ instance' = g.instance
          /\ IF g.raised # ""
             THEN /\ raised' = g.raised
                  /\ UNCHANGED <<pq, counter, arrival, pushed>>
             ELSE /\ pushed' = pushed \cup {t}
                  /\ pq' = r.pq
                  /\ counter' = Min2(r.counter, MaxCounter)
                  /\ raised' = r.raised
                  /\ arrival' = Append(arrival, t)
    /\ UNCHANGED <<now, task_vars, timeout_arg, sched_alive, task_queue,
                   result_queue, pool_vars, workers, returned, chain_call>>

\* a caller constructs TaskChain(*args)
CreateChain(args) ==
    /\ \A i \in 1..Len(args) : tasks[args[i]].alive
    /\ IF ChainTooLong(args)
       THEN /\ raised' = "RuntimeError"
            /\ UNCHANGED <<tasks, chain>>
       ELSE /\ raised' = ""
            /\ tasks' = LinkFrom(tasks, args, 1, NoTask)
            /\ chain' = [tasks |-> args, head |-> args[1], tail |-> args[Len(args)]]
    /\ UNCHANGED <<now, invoked, sched_vars, task_queue, result_queue, pool_vars,
                   workers, returned, chain_call, pushed>>

\* CoreMultiprocessing.push_chain(chain), up to its call of task_chain.get(),
\* where the caller waits for the tail's result_event
PushChainCall ==
    /\ chain # NoChain
    /\ chain_call # "waiting"
    /\ LET g == GetInstanceOutcome(instance, PyNone, PyNone, PyNone)
       IN /\ instance' = g.instance
          /\ raised' = g.raised
          /\ chain_call' = IF g.raised # "" THEN chain_call ELSE "waiting"
    /\ UNCHANGED <<now, task_vars, pq, counter, timeout_arg, sched_alive, arrival,
                   task_queue, result_queue, pool_vars, workers, returned, pushed>>

\* CoreMultiprocessing.push_chain(chain), from the return of task_chain.get():
\* the tail's exception is re-raised, or the tail's result (no Task: it has no
\* .priority) is handed to TaskScheduler.submit
PushChainReturn ==
    /\ chain_call = "waiting"
    /\ GetReady(tasks, chain.tail)
    /\ chain_call' = "returned"
    /\ raised' = IF Get(tasks, chain.tail).kind = "raise"
                 THEN Get(tasks, chain.tail).val.kind
                 ELSE "AttributeError"
    /\ UNCHANGED <<now, task_vars, sched_vars, task_queue, result_queue, pool_vars,
                   workers, returned, pushed>>


\* --------------------------------------------------------- the scheduler
\* one iteration of TaskScheduler._dispatcher: _dispatch_one(), then
\* retrieve() when the compositor's task_queue is not empty. A TypeError
\* out of heappop ends the coroutine.
SchedulerTick ==
    /\ sched_alive
    /\ IF pq = <<>>
       THEN /\ UNCHANGED <<pq, arrival, sched_alive, task_queue>>
            /\ tasks' = IF task_queue # <<>> THEN Retrieve(tasks, result_queue) ELSE tasks
            /\ result_queue' = IF task_queue # <<>> THEN <<>> ELSE result_queue
       ELSE LET r == HeapPop(pq)
            IN /\ pq' = r.heap
               /\ arrival' = Remove(arrival, r.item.task)
               /\ IF r.err
                  THEN /\ sched_alive' = FALSE
                       /\ UNCHANGED <<task_queue, tasks, result_queue>>
                  ELSE /\ sched_alive' = TRUE
                       /\ task_queue' = Append(task_queue, r.item.task)
                       /\ tasks' = Retrieve(tasks, result_queue)
                       /\ result_queue' = <<>>
    /\ UNCHANGED <<now, invoked, chain, counter, instance, timeout_arg, pool_vars,
                   workers, call_vars>>

\* ------------------------------------------------------------- Worker
\* a stop() that sets the event whatever the worker's state
StopInAnyState(ws, w) == [ws EXCEPT ![w].stop_event = TRUE, ![w].stop_req = TRUE]

\* Worker.stop
Stop(ws, w) ==
    IF ws[w].state \in {"STOPPED", "TERMINATED"} THEN ws
    ELSE [ws EXCEPT ![w].stop_event = TRUE, ![w].stop_req = TRUE]

\* Worker.resume
Resume(ws, w) ==
    IF ws[w].state \in {"IDLE", "TERMINATED"} THEN ws
    ELSE [ws EXCEPT ![w].stop_event = TRUE]

\* a worker that goes to wait on its task_queue whatever its buffer holds
FetchFromQueue(wr) == [wr EXCEPT !.pc = "get"]

\* Worker._consumer, lines 309-312: the buffered successor is taken, or the
\* worker goes to wait on its task_queue
Fetch(wr) ==
    IF wr.buffer # NoTask
    THEN [wr EXCEPT !.cur = wr.buffer, !.state = "BUSY", !.pc = "busy"]
    ELSE [wr EXCEPT !.pc = "get"]

\* Worker._consumer, top of the loop: a set stop event parks the worker
WorkerTop(w) ==
    /\ workers[w].alive
    /\ workers[w].pc = "top"
    /\ workers' = [workers EXCEPT ![w] =
          IF workers[w].stop_event
          THEN [workers[w] EXCEPT !.stop_event = FALSE, !.stop_req = FALSE,
                                  !.state = "STOPPED", !.pc = "parked"]
          ELSE Fetch(workers[w])]
    /\ UNCHANGED <<now, task_vars, sched_vars, task_queue, result_queue, pool_vars,
                   call_vars>>

\* Worker._consumer: _stop_event.wait() returns, the worker is IDLE again
\* (the event stays set)
WorkerWake(w) ==
    /\ workers[w].alive
    /\ workers[w].pc = "parked"
    /\ workers[w].stop_event
    /\ workers' = [workers EXCEPT ![w] = Fetch([workers[w] EXCEPT !.state = "IDLE"])]
    /\ UNCHANGED <<now, task_vars, sched_vars, task_queue, result_queue, pool_vars,
                   call_vars>>

\* Worker._consumer: task_queue.get returns a Task (get(block=timeout) waits
\* without a time limit), the worker turns BUSY
WorkerGet(w) ==
    /\ workers[w].alive
    /\ workers[w].pc = "get"
    /\ workers[w].queue # <<>>
    /\ workers' = [workers EXCEPT ![w].cur = Head(workers[w].queue),
                                  ![w].queue = Tail(workers[w].queue),
                                  ![w].state = "BUSY",
                                  ![w].pc = "busy"]
    /\ UNCHANGED <<now, task_vars, sched_vars, task_queue, result_queue, pool_vars,
                   call_vars>>

\* WorkerGet in its two steps, for the interleavings with the compositor:
\* task_queue.get returns a Task (line 312) while _state is still IDLE
WorkerTake(w) ==
    /\ workers[w].alive
    /\ workers[w].pc = "get"
    /\ workers[w].queue # <<>>
    /\ workers' = [workers EXCEPT ![w].cur = Head(workers[w].queue),
                                  ![w].queue = Tail(workers[w].queue),
                                  ![w].pc = "got"]
    /\ UNCHANGED <<now, task_vars, sched_vars, task_queue, result_queue, pool_vars,
                   call_vars>>

\* the worker enters its try block and turns BUSY (line 320)
WorkerBusy(w) ==
    /\ workers[w].alive
    /\ workers[w].pc = "got"
    /\ workers' = [workers EXCEPT ![w].state = "BUSY", ![w].pc = "busy"]
    /\ UNCHANGED <<now, task_vars, sched_vars, task_queue, result_queue, pool_vars,
                   call_vars>>

\* what the worker's try block computes for the task: task._run_async handed to
\* run_in_executor for an asynchronous worker, task.run() otherwise
WorkerCall(ts, wr) ==
    IF wr.is_async THEN RunAsyncUnawaited(ts, wr.cur) ELSE Run(ts, wr.cur)

\* the tuple the worker puts on the result queue
Outcome(t, out) ==
    IF out.kind = "ret"
    THEN [task |-> t, result |-> out.val, error |-> PyNone]
    ELSE [task |-> t, result |-> PyNone, error |-> out.val]

\* Worker._consumer, the try block: execute, buffer the successor, publish,
\* back to IDLE
WorkerExec(w) ==
    /\ workers[w].alive
    /\ workers[w].pc = "busy"
    /\ Len(result_queue) < MaxResults
    /\ LET t == workers[w].cur
           out == WorkerCall(tasks, workers[w])
       IN /\ result_queue' = Append(result_queue, Outcome(t, out))
          /\ workers' = [workers EXCEPT
                ![w].buffer = IF out.kind = "ret" /\ tasks[t].next # NoTask
                              THEN tasks[t].next ELSE workers[w].buffer,
                ![w].cur = NoTask,
                ![w].state = "IDLE",
                ![w].pc = "top"]
    /\ UNCHANGED <<now, task_vars, sched_vars, task_queue, pool_vars, call_vars>>

\* ------------------------------------------------------ ProcessCompositor
Records == sync_workers \o async_workers

\* a shedding that terminates the IDLE workers only
RECURSIVE TerminateIdleOnly(_, _, _, _, _)
TerminateIdleOnly(rs, ws, sw, aw, pids) ==
    IF rs = <<>> THEN [workers |-> ws, sync |-> sw, async |-> aw, pids |-> pids]
    ELSE LET w == Head(rs)
         IN IF ws[w].state = "IDLE"
            THEN TerminateIdleOnly(Tail(rs), [ws EXCEPT ![w] = NoWorker],
                                   IF ws[w].is_async THEN sw ELSE Remove(sw, w),
                                   IF ws[w].is_async THEN Remove(aw, w) ELSE aw,
                                   pids \ {w})
            ELSE TerminateIdleOnly(Tail(rs), ws, sw, aw, pids)

\* ProcessCompositor._terminate_non_busy_workers over the records rs:
\* [workers, sync, async, pids]
RECURSIVE TerminateNonBusy(_, _, _, _, _)
TerminateNonBusy(rs, ws, sw, aw, pids) ==
    IF rs = <<>> THEN [workers |-> ws, sync |-> sw, async |-> aw, pids |-> pids]
    ELSE LET w == Head(rs)
         IN IF ws[w].state \in {"IDLE", "STOPPED"}
            THEN TerminateNonBusy(Tail(rs), [ws EXCEPT ![w] = NoWorker],
                                  IF ws[w].is_async THEN sw ELSE Remove(sw, w),
                                  IF ws[w].is_async THEN Remove(aw, w) ELSE aw,
                                  pids \ {w})
            ELSE TerminateNonBusy(Tail(rs), ws, sw, aw, pids)

\* the placement loops of _dispatch_task over the records rs of the task's kind
RECURSIVE Place(_, _, _)
Place(rs, ws, t) ==
    IF rs = <<>> THEN ws
    ELSE LET w == Head(rs)
         IN IF ws[w].state = "IDLE"
            THEN Place(Tail(rs), [ws EXCEPT ![w].queue = Append(ws[w].queue, t)], t)
            ELSE IF ws[w].state = "STOPPED"
                 THEN Place(Tail(rs),
                            [Resume(ws, w) EXCEPT ![w].queue = Append(ws[w].queue, t)], t)
                 ELSE Place(Tail(rs), ws, t)

\* a creation test that lets the list grow past the limit
MayCreateUpToLimit(count, max) == count <= max

\* the test that lets _dispatch_task create a worker
MayCreate(count, max) == count + 1 < max

\* the pid of the process that Worker.start() spawns
FreshPid(ws) == CHOOSE w \in Workers : ~ws[w].alive /\ \A v \in Workers : ~ws[v].alive => w <= v

\* _dispatcher_loop reads len(pid_pool); _dispatch_task checks the CPU usage
\* (cpu_high is psutil's answer), sheds the non-busy workers and goes to wait
\* on task_queue.get()
PoolCheck(cpu_high) ==
    /\ pool_pc.pc = "top"
    /\ pool_pc' = [pc |-> "get", est |-> Cardinality(pid_pool), err |-> ""]
    /\ IF cpu_high
       THEN LET r == TerminateNonBusy(Records, workers, sync_workers, async_workers,
                                      pid_pool)
            IN /\ workers' = r.workers
               /\ sync_workers' = r.sync
               /\ async_workers' = r.async
               /\ pid_pool' = r.pids
               /\ stop_call' = [stop_call EXCEPT !.joined = @ \cap r.pids]
       ELSE UNCHANGED <<workers, sync_workers, async_workers, pid_pool, stop_call>>
    /\ UNCHANGED <<now, task_vars, sched_vars, task_queue, result_queue, profiled,
                   call_vars>>

\* _dispatch_task from the return of task_queue.get() on, and the rest of the
\* _dispatcher_loop iteration: placement on every IDLE or STOPPED worker of the
\* kind, then creation of a worker or RuntimeError (which skips the profiler
\* report and which _dispatcher_loop catches: pool_pc.err until the next
\* iteration)
PoolDispatch ==
    /\ pool_pc.pc = "get"
    /\ task_queue # <<>>
    /\ LET t == Head(task_queue)
           is_async == IsAsync(tasks, t)
           kind == IF is_async THEN async_workers ELSE sync_workers
           max == IF is_async THEN MaxAsyncWorkers ELSE MaxWorkers
           placed == Place(kind, workers, t)
       IN /\ task_queue' = Tail(task_queue)
          /\ IF MayCreate(Len(kind), max)
             THEN LET w == FreshPid(placed)
                  IN /\ workers' = [placed EXCEPT ![w] =
                           [NewWorker(is_async) EXCEPT !.queue = <<t>>]]
                     /\ sync_workers' = IF is_async THEN sync_workers
                                        ELSE Append(sync_workers, w)
                     /\ async_workers' = IF is_async THEN Append(async_workers, w)
                                         ELSE async_workers
                     /\ pid_pool' = pid_pool \cup {w}
                     /\ profiled' = IF Cardinality(pid_pool') # pool_pc.est
                                    THEN pid_pool' ELSE profiled
                     /\ pool_pc' = [pc |-> "top", est |-> 0, err |-> ""]
             ELSE /\ workers' = placed
                  /\ pool_pc' = [pc |-> "top", est |-> 0, err |-> "RuntimeError"]
                  /\ UNCHANGED <<sync_workers, async_workers, pid_pool, profiled>>
    /\ UNCHANGED <<now, task_vars, sched_vars, result_queue, stop_call, call_vars>>

\* ProcessCompositor.stop, up to its joins: worker.stop() on every record; the
\* caller then waits in record.worker.join() for each of these processes
\* (joined: the processes still to exit)
CompositorStop ==
    /\ stop_call.pc # "joining"
    /\ LET StopAll[i \in 0..Len(Records)] ==
               IF i = 0 THEN workers ELSE Stop(StopAll[i - 1], Records[i])
       IN workers' = StopAll[Len(Records)]
    /\ stop_call' = [pc |-> "joining", joined |-> Range(Records)]
    /\ UNCHANGED <<now, task_vars, sched_vars, task_queue, result_queue,
                   sync_workers, async_workers, pid_pool, pool_pc, profiled,
                   call_vars>>

\* ProcessCompositor.stop, from its joins on: every join has returned (the
\* worker process has exited), stop() returns
CompositorStopReturn ==
    /\ stop_call.pc = "joining"
    /\ \A w \in stop_call.joined : ~workers[w].alive
    /\ stop_call' = [pc |-> "returned", joined |-> {}]
    /\ UNCHANGED <<now, task_vars, sched_vars, task_queue, result_queue,
                   sync_workers, async_workers, pid_pool, pool_pc, profiled,
                   workers, call_vars>>


\* ------------------------------------------- direct calls of Task methods
sys_vars == <<now, sched_vars, task_queue, result_queue, pool_vars, workers,
              chain_call, pushed>>

\* a caller calls t.put_result(v)
TaskPutResult(t, v) ==
    /\ tasks[t].alive
    /\ tasks' = PutResult(tasks, t, v)
    /\ raised' = ""
    /\ returned' = PyNone
    /\ UNCHANGED <<invoked, chain, sys_vars>>

\* a caller calls t.put_exception(e)
TaskPutException(t, e) ==
    /\ tasks[t].alive
    /\ tasks' = PutException(tasks, t, e)
    /\ raised' = ""
    /\ returned' = PyNone
    /\ UNCHANGED <<invoked, chain, sys_vars>>

\* a caller calls t.resolve()
TaskResolve(t) ==
    /\ tasks[t].alive
    /\ ResolveReady(tasks, t)
    /\ LET r == Resolve(tasks, t)
       IN /\ tasks' = r.ts
          /\ raised' = IF r.out.kind = "raise" THEN r.out.val.kind ELSE ""
    /\ returned' = PyNone
    /\ UNCHANGED <<invoked, chain, sys_vars>>

\* a caller calls t._run_sync()
TaskRunSync(t) ==
    /\ tasks[t].alive
    /\ RunSyncReady(tasks, t)
    /\ LET r == RunSync(tasks, t)
       IN /\ tasks' = r.ts
          /\ invoked' = [invoked EXCEPT ![t] = invoked[t] \/ r.called]
          /\ raised' = IF r.out.kind = "raise" THEN r.out.val.kind ELSE ""
          /\ returned' = IF r.out.kind = "ret" THEN r.out.val ELSE PyNone
    /\ UNCHANGED <<chain, sys_vars>>

\* a caller calls t.run()
TaskRun(t) ==
    /\ tasks[t].alive
    /\ raised' = ""
    /\ returned' = Run(tasks, t).val
    /\ UNCHANGED <<task_vars, sys_vars>>

\* ------------------------------- direct calls of the scheduler's methods
\* a caller calls TaskScheduler.get_instance(max_workers, max_async_workers,
\* max_tasks_per_loop); a new TaskScheduler has an empty _pq
GetInstance(max_workers, max_async_workers, max_tasks_per_loop) ==
    /\ LET g == GetInstanceOutcome(instance, max_workers, max_async_workers,
                                   max_tasks_per_loop)
       IN /\ instance' = g.instance
          /\ raised' = g.raised
          /\ returned' = g.returned
          /\ IF g.instance.id # instance.id
             THEN pq' = <<>> /\ counter' = 0 /\ arrival' = <<>>
             ELSE UNCHANGED <<pq, counter, arrival>>
    /\ UNCHANGED <<now, task_vars, timeout_arg, sched_alive, task_queue,
                   result_queue, pool_vars, workers, chain_call, pushed>>

\* a caller takes the value a as the timeout to give
HoldTimeout(a) ==
    /\ timeout_arg' = a
    /\ UNCHANGED <<now, task_vars, pq, counter, instance, sched_alive, arrival,
                   task_queue, result_queue, pool_vars, workers, call_vars>>

\* a caller calls ProcessCompositor.covert_to_timeout(amt)
CallCovertToTimeout(amt) ==
    /\ LET r == CovertToTimeout(amt)
       IN /\ raised' = IF r.kind = "raise" THEN r.val.kind ELSE ""
          /\ returned' = IF r.kind = "ret" THEN r.val ELSE PyNone
    /\ UNCHANGED <<now, task_vars, sched_vars, task_queue, result_queue,
                   pool_vars, workers, chain_call, pushed>>

\* ---------------------------------------- direct calls of Worker methods
\* a holder of the record of worker w calls record.worker.stop()
WorkerStop(w) ==
    /\ w \in Range(Records)
    /\ workers' = Stop(workers, w)
    /\ UNCHANGED <<now, task_vars, sched_vars, task_queue, result_queue, pool_vars,
                   call_vars>>

\* a holder of the record of worker w calls record.worker.resume()
WorkerResume(w) ==
    /\ w \in Range(Records)
    /\ workers' = Resume(workers, w)
    /\ UNCHANGED <<now, task_vars, sched_vars, task_queue, result_queue, pool_vars,
                   call_vars>>

\* ------------------------------------------------------------ the system
\* The callers' Tasks: the chain double -> add_ten -> to_string of the usage
\* examples, or the independent items add, fail and an asynchronous add.
ChainPopulation ==
    <<NewTask("double", 0, <<>>, 0),
      NewTask("add_ten", 1, <<"x">>, 0),
      NewTask("to_string", 2, <<"x">>, 0)>>

ItemPopulation ==
    <<NewTask("add", 1, <<>>, 0),
      NewTask("fail", 2, <<>>, 0),
      NewTask("aadd", 0, <<>>, 0)>>

ChainShapes == {<<1, 2>>, <<1, 2, 3>>}

\* Spec: independent items through the scheduler, the compositor and the
\* workers, with CPU overload and compositor shutdown.
Init == InitWith(ItemPopulation)

Next ==
    \/ \E t \in Tasks : PushTask(t)
    \/ SchedulerTick
    \/ \E cpu_high \in BOOLEAN : PoolCheck(cpu_high)
    \/ PoolDispatch
    \/ CompositorStop
    \/ CompositorStopReturn
    \/ \E w \in Workers : WorkerTop(w)
    \/ \E w \in Workers : WorkerWake(w)
    \/ \E w \in Workers : WorkerGet(w)
    \/ \E w \in Workers : WorkerExec(w)

Spec == Init /\ [][Next]_vars

\* the scheduling of the three kinds of loops: the scheduler's dispatcher and
\* the compositor's dispatcher loop run forever, every worker process runs
Fairness ==
    /\ WF_vars(SchedulerTick)
    /\ WF_vars(PoolCheck(FALSE) \/ PoolDispatch)
    /\ \A w \in Workers : WF_vars(WorkerTop(w) \/ WorkerGet(w) \/ WorkerExec(w))

\* FairSpec: the same items with a CPU that is never overloaded and no
\* shutdown, every loop scheduled fairly.
FairNext ==
    \/ \E t \in Tasks : PushTask(t)
    \/ SchedulerTick
    \/ PoolCheck(FALSE)
    \/ PoolDispatch
    \/ \E w \in Workers : WorkerTop(w)
    \/ \E w \in Workers : WorkerGet(w)
    \/ \E w \in Workers : WorkerExec(w)

FairSpec == Init /\ [][FairNext]_vars /\ Fairness

\* ChainSpec: the three Tasks of a chain; a caller builds one TaskChain and
\* submits it with push_chain, callers may also push the Tasks themselves.
ChainInit == InitWith(ChainPopulation)

ChainNext ==
    \/ \E t \in Tasks : PushTask(t)
    \/ \E args \in ChainShapes : chain = NoChain /\ CreateChain(args)
    \/ PushChainCall
    \/ PushChainReturn
    \/ SchedulerTick
    \/ PoolCheck(FALSE)
    \/ PoolDispatch
    \/ \E w \in Workers : WorkerTop(w)
    \/ \E w \in Workers : WorkerGet(w)
    \/ \E w \in Workers : WorkerExec(w)

ChainSpec == ChainInit /\ [][ChainNext]_vars

FairChainSpec == ChainInit /\ [][ChainNext]_vars /\ Fairness

\* SchedSpec: one item of base priority MaxPrio, and callers that keep
\* constructing and submitting fresh items of base priority 0 (a Task object
\* is dropped, and its slot reused, once it has completed) while time passes.
SchedInit ==
    InitWith([t \in Tasks |->
        IF t = 1 THEN NewTask("add", MaxPrio, <<>>, 0) ELSE NoTaskYet])

SchedNext ==
    \/ AdvanceTime
    \/ \E t \in Tasks \ {1} :
          (~tasks[t].alive \/ tasks[t].event) /\ CreateTask(t, "add", 0, <<>>)
    \/ \E t \in Tasks : PushTask(t)
    \/ SchedulerTick
    \/ PoolCheck(FALSE)
    \/ PoolDispatch
    \/ \E w \in Workers : WorkerTop(w)
    \/ \E w \in Workers : WorkerGet(w)
    \/ \E w \in Workers : WorkerExec(w)

SchedSpec == SchedInit /\ [][SchedNext]_vars

\* FairSchedSpec: the same with every loop scheduled fairly and a clock that
\* keeps advancing (up to MaxTime).
FairSchedSpec ==
    SchedInit /\ [][SchedNext]_vars /\ Fairness /\ WF_vars(AdvanceTime)

\* AgingSpec: callers construct items of every base priority and submit them
\* while time passes and the scheduler's dispatcher pops them; the pool is
\* left out (the popped items stay in its task_queue).
AgingNext ==
    \/ AdvanceTime
    \/ \E t \in Tasks \ {1}, p \in 0..MaxPrio :
          ~tasks[t].alive /\ CreateTask(t, "add", p, <<>>)
    \/ \E t \in Tasks : PushTask(t)
    \/ SchedulerTick

AgingSpec == SchedInit /\ [][AgingNext]_vars

\* TaskSpec: callers build chains over the three Tasks and call the Task
\* methods directly, completing predecessors with values of every shape.
ResultValues == {PyInt(5), PyMapX(5), PySeq1(5)}

TaskNext ==
    \/ \E args \in ChainShapes : CreateChain(args)
    \/ \E t \in Tasks, v \in ResultValues : TaskPutResult(t, v)
    \/ \E t \in Tasks : TaskPutException(t, PyExc("ValueError"))
    \/ \E t \in Tasks : TaskResolve(t)
    \/ \E t \in Tasks : TaskRunSync(t)
    \/ \E t \in Tasks : TaskRun(t)

TaskSpec == ChainInit /\ [][TaskNext]_vars

\* SlotSpec: callers build chains of up to ChainLimit + 1 arguments (the three
\* Tasks, repeated in turn) and call put_result, put_exception, resolve and
\* _run_sync directly, the results being None or an empty mapping.
SlotValues == {PyNone, PyEmptyMap}

InTurn(n) == [i \in 1..n |-> ((i - 1) % Cardinality(Tasks)) + 1]

SlotShapes == {<<1, 2>>, InTurn(ChainLimit), InTurn(ChainLimit + 1)}

SlotNext ==
    \/ \E args \in SlotShapes : CreateChain(args)
    \/ \E t \in Tasks, v \in SlotValues : TaskPutResult(t, v)
    \/ \E t \in Tasks : TaskPutException(t, PyExc("ValueError"))
    \/ \E t \in Tasks : TaskResolve(t)
    \/ \E t \in Tasks : TaskRunSync(t)

SlotSpec == ChainInit /\ [][SlotNext]_vars

\* PoolSpec: three asynchronous items, more than the pool may hold
\* asynchronous workers for, with CPU overload and compositor shutdown.
PoolPopulation ==
    <<NewTask("aadd", 0, <<>>, 0),
      NewTask("aadd", 1, <<>>, 0),
      NewTask("aadd", 2, <<>>, 0)>>

PoolInit == InitWith(PoolPopulation)

\* StopSpec: the independent items with overload and shutdown, every loop
\* scheduled fairly: the two dispatch loops, every worker (its wake-up from
\* _stop_event.wait() included) and the return of stop() from its joins.
StopFairness ==
    /\ WF_vars(SchedulerTick)
    /\ WF_vars(PoolCheck(FALSE) \/ PoolDispatch)
    /\ \A w \in Workers :
          WF_vars(WorkerTop(w) \/ WorkerWake(w) \/ WorkerGet(w) \/ WorkerExec(w))
    /\ WF_vars(CompositorStopReturn)

StopSpec == Init /\ [][Next]_vars /\ StopFairness

PoolSpec == PoolInit /\ [][Next]_vars

\* TimeoutSpec: callers hold timeouts of every form and convert them.
TimeoutInit == \E a \in TimeoutArgs : InitOf(ItemPopulation, Unconstructed, a)

TimeoutNext ==
    \/ \E a \in TimeoutArgs : HoldTimeout(a)
    \/ CallCovertToTimeout(timeout_arg)

TimeoutSpec == TimeoutInit /\ [][TimeoutNext]_vars

\* FacadeSpec: the process before any scheduler exists: callers get the
\* instance with pool sizes and timeouts of every form and push items and a
\* chain through CoreMultiprocessing.
FacadeInit == InitOf(ItemPopulation, Unconstructed, PyNone)

FacadeNext ==
    \/ \E mw \in {PyNone, PyInt(MaxWorkers)}, amt \in TimeoutArgs :
          GetInstance(mw, PyInt(MaxAsyncWorkers), amt)
    \/ \E t \in Tasks : PushTask(t)
    \/ CreateChain(<<1, 2>>)
    \/ PushChainCall

FacadeSpec == FacadeInit /\ [][FacadeNext]_vars

\* PoolNext: the pool without overload and shutdown
PoolNext ==
    \/ \E t \in Tasks : PushTask(t)
    \/ SchedulerTick
    \/ PoolCheck(FALSE)
    \/ PoolDispatch
    \/ \E w \in Workers : WorkerTop(w)
    \/ \E w \in Workers : WorkerGet(w)
    \/ \E w \in Workers : WorkerExec(w)

\* LinkSpec: the three Tasks of a chain, linked by a caller into a TaskChain
\* and then pushed as items, through the pool without overload and shutdown.
LinkNext ==
    \/ PoolNext
    \/ \E args \in ChainShapes : chain = NoChain /\ pushed = {} /\ CreateChain(args)

LinkSpec == ChainInit /\ [][LinkNext]_vars

\* RaceSpec: two asynchronous items and a synchronous one that a caller may
\* first link to an asynchronous successor, with CPU overload; the workers
\* take their items and turn BUSY in separate steps.
RaceInit ==
    InitWith(<<NewTask("aadd", 0, <<>>, 0),
               NewTask("add", 1, <<>>, 0),
               NewTask("aadd", 2, <<>>, 0)>>)

RaceNext ==
    \/ \E t \in Tasks : PushTask(t)
    \/ chain = NoChain /\ pushed = {} /\ CreateChain(<<2, 3>>)
    \/ SchedulerTick
    \/ \E cpu_high \in BOOLEAN : PoolCheck(cpu_high)
    \/ PoolDispatch
    \/ \E w \in Workers : WorkerTop(w)
    \/ \E w \in Workers : WorkerTake(w)
    \/ \E w \in Workers : WorkerBusy(w)
    \/ \E w \in Workers : WorkerExec(w)

RaceSpec == RaceInit /\ [][RaceNext]_vars

\* RunSpec: the asynchronous items of PoolSpec, with callers that also call
\* run() on the items themselves.
RunNext ==
    \/ PoolNext
    \/ \E t \in Tasks : TaskRun(t)

RunSpec == PoolInit /\ [][RunNext]_vars

\* CallSpec: the asynchronous items of PoolSpec, with callers that also call
\* stop() and resume() on the workers directly.
CallNext ==
    \/ PoolNext
    \/ \E w \in Workers : WorkerWake(w)
    \/ \E w \in Workers : WorkerStop(w)
    \/ \E w \in Workers : WorkerResume(w)

CallSpec == PoolInit /\ [][CallNext]_vars

\* ================================================================ claims
\* what Task.get() gives the caller of t is what t's callable yields
GetsOutcome(t) ==
    /\ GetReady(tasks, t)
    /\ Get(tasks, t) = Call(tasks[t].func, tasks[t].kwargs)

\* C1: every item submitted through push_task eventually completes: under
\* fair scheduling of the dispatch loops and the workers the caller's
\* Task.get() eventually returns or raises.
C1_EveryItemCompletes == \A t \in Tasks : (t \in pushed) ~> GetReady(tasks, t)

\* the outcome tuples on the result queue
Published == Range(result_queue)

\* C2: a synchronous item without arg_deps that a worker executed: the worker
\* publishes the return value of the item's callable, invoked with its
\* arguments, and Task.get() returns that value.
C2_SyncItemYieldsReturnValue ==
    \A t \in Tasks :
        (tasks[t].func \in SyncFuncs /\ tasks[t].arg_deps = <<>>) =>
            /\ \A m \in Published : m.task = t =>
                  /\ invoked[t]
                  /\ Outcome(t, Call(tasks[t].func, tasks[t].kwargs)) = m
            /\ GetReady(tasks, t) => (invoked[t] /\ GetsOutcome(t))

\* C3: an item whose callable raises E: the worker publishes (item, None, E),
\* retrieve() stores E in that item's exception slot and in no other item's,
\* the item's get() re-raises E and its result slot stays empty.
C3_RaisedErrorReachesItsItem ==
    /\ \A m \in Published :
          Call(tasks[m.task].func, tasks[m.task].kwargs).kind = "raise" =>
              m = Outcome(m.task, Call(tasks[m.task].func, tasks[m.task].kwargs))
    /\ \A t \in Tasks :
          /\ (GetReady(tasks, t) /\ Call(tasks[t].func, tasks[t].kwargs).kind = "raise") =>
                /\ Get(tasks, t) = Call(tasks[t].func, tasks[t].kwargs)
                /\ tasks[t].result = PyNone
          /\ tasks[t].exception # PyNone =>
                Call(tasks[t].func, tasks[t].kwargs) =
                    [kind |-> "raise", val |-> tasks[t].exception]

\* C4: after push_chain(chain) every link of the chain is eventually executed
\* and chain.get() eventually returns the tail's value, under fair scheduling.
C4_PushedChainCompletes ==
    (chain_call # "none") ~>
        (/\ chain # NoChain
         /\ \A i \in 1..Len(chain.tasks) : invoked[chain.tasks[i]]
         /\ GetsOutcome(chain.tail))

\* t has declared dependencies and resolve() found them all in the result p
\* of its predecessor (a mapping with every key, a long enough sequence)
DepsPresent(t, p) ==
    /\ tasks[t].arg_deps # <<>>
    /\ \/ p.kind = "mapx" /\ \A i \in 1..Len(tasks[t].arg_deps) :
                                 Contains(p, tasks[t].arg_deps[i])
       \/ p.kind = "seq1" /\ Len(tasks[t].arg_deps) <= 1

\* C5: dependency propagation: once resolve() has resolved an item against a
\* predecessor result that holds every arg_deps key (or index), the item's
\* kwargs map each arg_deps key to the predecessor's value.
C5_ResolveCopiesDependencies ==
    \A t \in Tasks :
        (tasks[t].resolved /\ DepsPresent(t, tasks[t].prev_result)) =>
            \A i \in 1..Len(tasks[t].arg_deps) :
                tasks[t].kwargs[tasks[t].arg_deps[i]] = tasks[t].prev_result.n

\* C6: a chain runs strictly in sequence: no link's callable starts before its
\* predecessor has completed, and whenever the tail has a result every
\* earlier link has completed.
C6_ChainIsSequential ==
    /\ \A t \in Tasks :
          (invoked[t] /\ tasks[t].past # NoTask) => GetReady(tasks, tasks[t].past)
    /\ (chain # NoChain /\ tasks[chain.tail].result # PyNone) =>
          \A i \in 1..Len(chain.tasks) : GetReady(tasks, chain.tasks[i])

\* C7: push_chain(chain) enqueues exactly the chain's tail and returns, without
\* waiting for any item of the chain: every step of push_chain is the whole
\* call, after which the pending queue is the old one with the tail submitted.
C7_PushChainEnqueuesTail ==
    [][chain_call' # chain_call =>
          /\ chain_call' = "returned"
          /\ raised' = ""
          /\ pq' = Submit(pq, counter, tasks, chain.tail, now).pq]_vars

\* t is in the scheduler's pending queue
Pending(t) == \E i \in 1..Len(pq) : pq[i].task = t

\* this step of the scheduler's dispatcher popped an item and handed it to
\* the pool (nothing else appends to the compositor's task_queue)
PopStep == Len(task_queue') = Len(task_queue) + 1
Popped == task_queue'[Len(task_queue')]

\* C8: starvation freedom: while the dispatch loop runs, every pending item
\* is eventually popped and handed to the pool, whatever is submitted
\* meanwhile.
C8_NoStarvation ==
    \A t \in Tasks :
        Pending(t) ~> (t \in Range(task_queue) \/ ~sched_alive)

\* C9: each dispatch tick pops an item whose effective priority at that
\* moment is the highest: no pending item with a strictly higher one stays.
C9_PopsHighestEffectivePriority ==
    [][PopStep =>
          \A i \in 1..Len(pq') :
              Priority(tasks, pq'[i].task, now) <= Priority(tasks, Popped, now)]_vars

\* u was submitted before t and both are still pending
ArrivedBefore(u, t) ==
    \E i, j \in 1..Len(arrival) : i < j /\ arrival[i] = u /\ arrival[j] = t

\* C10: items with equal priority keys: submit() accepts an item whose key
\* equals a pending one's, and of two pending items with equal keys the one
\* submitted first is dispatched first.
C10_EqualKeysAreFifo ==
    [][/\ \A t \in Tasks :
             (/\ t \notin pushed
              /\ t \in pushed'
              /\ \E i \in 1..Len(pq) : pq[i].k1 = Priority(tasks, t, now)) =>
                 (raised' = "" /\ \E i \in 1..Len(pq') : pq'[i].task = t)
       /\ PopStep =>
             \A i \in 1..Len(pq) :
                 (pq[i].k1 = pq[1].k1 /\ pq[i].task # Popped) =>
                     ~ArrivedBefore(pq[i].task, Popped)]_vars

\* the workers of one kind that are running
Running(is_async) ==
    {w \in Workers : workers[w].alive /\ workers[w].is_async = is_async}

\* C11: pool elasticity bound: the synchronous workers (the records and the
\* running processes) never exceed max_workers, the asynchronous ones never
\* exceed max_async_workers.
C11_PoolWithinLimits ==
    /\ Len(sync_workers) <= MaxWorkers
    /\ Cardinality(Running(FALSE)) <= MaxWorkers
    /\ Len(async_workers) <= MaxAsyncWorkers
    /\ Cardinality(Running(TRUE)) <= MaxAsyncWorkers

\* the items the pool's dispatcher has taken from its task_queue
Dispatched == {t \in pushed : ~Pending(t) /\ t \notin Range(task_queue)}

\* the pool holds as many asynchronous workers as it ever creates and has
\* dispatched more asynchronous items than that
C11_PoolAtItsLimit ==
    /\ Len(async_workers) = MaxAsyncWorkers - 1
    /\ Cardinality(Dispatched) > Len(async_workers)
    /\ Cardinality(Dispatched) >= 2

\* the Task t is in a queue of the system (pending in q, inbound in tq, at a
\* worker of ws), or its outcome is on the result queue rq
HeldIn(t, q, tq, ws, rq) ==
    \/ \E i \in 1..Len(q) : q[i].task = t
    \/ t \in Range(tq)
    \/ \E w \in Workers :
          /\ ws[w].alive
          /\ t \in Range(ws[w].queue) \cup {ws[w].cur, ws[w].buffer}
    \/ \E i \in 1..Len(rq) : rq[i].task = t

\* C15: a pool dispatch never drops its item silently: after the step the
\* item is in a queue (a worker's, or back in a dispatch queue) or has an
\* outcome the caller can see.
C15_SaturationIsNotSilent ==
    [][(task_queue # <<>> /\ task_queue' = Tail(task_queue)) =>
          \/ HeldIn(Head(task_queue), pq', task_queue', workers', result_queue')
          \/ tasks'[Head(task_queue)].event]_vars

C13_StoppedOnlyOnRequest ==
    [][\A w \in Workers :
          (/\ workers[w].alive
           /\ workers[w].state # "STOPPED"
           /\ workers'[w].alive
           /\ workers'[w].state = "STOPPED") => workers[w].stop_req]_vars

\* C14: shutdown terminates: once ProcessCompositor.stop() has signalled the
\* workers, its joins eventually complete and stop() returns, every worker it
\* joined having exited.
C14_StopTerminates ==
    (stop_call.pc = "joining") ~> (stop_call.pc = "returned")

\* C16: put_result is write-once: a put_result(v2) on an item that an earlier
\* put_result has completed (its event is set, no exception was stored)
\* changes nothing of the item, whatever the first value was, None included.
C16_PutResultIsWriteOnce ==
    [][\A t \in Tasks, v \in SlotValues :
          (/\ tasks[t].event
           /\ tasks[t].exception = PyNone
           /\ TaskPutResult(t, v)) => tasks'[t] = tasks[t]]_vars

\* C17: at most one of an item's result slot and exception slot is written.
C17_OneSlotWritten ==
    \A t \in Tasks : tasks[t].result = PyNone \/ tasks[t].exception = PyNone

\* the previous/next links of the Tasks
Links(ts) == [t \in Tasks |-> <<ts[t].past, ts[t].next>>]

\* C18: TaskChain(*args) succeeds for up to 15 arguments and raises the
\* chain-too-long RuntimeError for more, leaving every link as it was.
C18_ChainLengthLimit ==
    [][\A args \in SlotShapes : CreateChain(args) =>
          IF Len(args) > 15
          THEN /\ raised' = "RuntimeError"
               /\ Links(tasks') = Links(tasks)
               /\ chain' = chain
          ELSE /\ raised' = ""
               /\ chain'.tasks = args]_vars

\* a chain of exactly 15 arguments stands, and the construction of a longer
\* one has just been refused
C18_LimitReachedAndRefused ==
    /\ Len(chain.tasks) = ChainLimit
    /\ raised = "RuntimeError"

\* the items of the chain c are distinct
Distinct(c) == Cardinality(Range(c.tasks)) = Len(c.tasks)

\* C19: chain integrity: in a chain built from distinct items t1..tk each
\* t(i).next is t(i+1) and t(i+1).past is t(i), the head has no predecessor,
\* the tail no successor, and unzip() returns <<t1, ..., tk>>.
C19_ChainLinksMatchItems ==
    (chain # NoChain /\ Distinct(chain)) =>
        /\ \A i \in 1..(Len(chain.tasks) - 1) :
              /\ tasks[chain.tasks[i]].next = chain.tasks[i + 1]
              /\ tasks[chain.tasks[i + 1]].past = chain.tasks[i]
        /\ chain.head = chain.tasks[1]
        /\ tasks[chain.head].past = NoTask
        /\ chain.tail = chain.tasks[Len(chain.tasks)]
        /\ tasks[chain.tail].next = NoTask
        /\ Unzip(tasks, chain) = chain.tasks

\* the predecessor result p is a mapping or a sequence that lacks a key (an
\* index) t declares in arg_deps
DepsAbsent(t, p) ==
    \E i \in 1..Len(tasks[t].arg_deps) :
        \/ p.kind \in {"mapx", "map0"} /\ ~Contains(p, tasks[t].arg_deps[i])
        \/ p.kind = "seq1" /\ i - 1 >= SeqLen(p)

\* C20: an item whose declared dependency is absent from its predecessor's
\* result is not marked resolved and its callable is not invoked.
C20_AbsentDependencyFailsResolve ==
    \A t \in Tasks :
        DepsAbsent(t, tasks[t].prev_result) => (~tasks[t].resolved /\ ~invoked[t])


\* ------------------------------------------------- claims C21..C30
\* the item _dispatch_task has taken from task_queue.get() and its kind
DispatchedTask == Head(task_queue)

DispatchKind == IF IsAsync(tasks, DispatchedTask) THEN async_workers ELSE sync_workers

DispatchMax == IF IsAsync(tasks, DispatchedTask) THEN MaxAsyncWorkers ELSE MaxWorkers

\* the records of rs whose worker is in one of the states sts, in list order
RECURSIVE InState(_, _)
InState(rs, sts) ==
    IF rs = <<>> THEN <<>>
    ELSE IF workers[Head(rs)].state \in sts
         THEN <<Head(rs)>> \o InState(Tail(rs), sts)
         ELSE InState(Tail(rs), sts)

\* the workers whose inbound queue got an item between ws and ws2
Receivers(ws, ws2) == {w \in Workers : Len(ws2[w].queue) > Len(ws[w].queue)}

\* the worker processes started between ws and ws2
Started(ws, ws2) == {w \in Workers : ~ws[w].alive /\ ws2[w].alive}

\* C27: one dispatch hands its item to exactly one worker: the first IDLE
\* worker of the item's kind, else the first STOPPED one, else a newly created
\* one, and never to several workers.
C27_OneWorkerPerDispatch ==
    [][PoolDispatch =>
          Receivers(workers, workers') =
              IF InState(DispatchKind, {"IDLE"}) # <<>>
              THEN {Head(InState(DispatchKind, {"IDLE"}))}
              ELSE IF InState(DispatchKind, {"STOPPED"}) # <<>>
                   THEN {Head(InState(DispatchKind, {"STOPPED"}))}
                   ELSE IF Len(DispatchKind) < DispatchMax
                        THEN Started(workers, workers')
                        ELSE {}]_vars

\* C28: a dispatched item that finds no IDLE or STOPPED worker of its kind
\* while the workers of that kind are fewer than the configured maximum gets a
\* new worker: created, started, given the item, its pid tracked.
C28_CreatesBelowMaximum ==
    [][(/\ PoolDispatch
        /\ InState(DispatchKind, {"IDLE", "STOPPED"}) = <<>>
        /\ Len(DispatchKind) < DispatchMax) =>
          \E w \in Started(workers, workers') :
              /\ workers'[w].queue = <<DispatchedTask>>
              /\ w \in pid_pool'
              /\ w \in Range(IF IsAsync(tasks, DispatchedTask)
                             THEN async_workers' ELSE sync_workers')]_vars

\* C29: a dispatch creates a worker only if it could not place its item on an
\* existing IDLE or STOPPED worker of the kind and the workers of that kind
\* are fewer than the maximum.
C29_CreatesOnlyWhenUnplaced ==
    [][(PoolDispatch /\ Started(workers, workers') # {}) =>
          /\ InState(DispatchKind, {"IDLE", "STOPPED"}) = <<>>
          /\ Len(DispatchKind) < DispatchMax]_vars

\* C30: a dispatch fails with the pool-saturated RuntimeError exactly when it
\* placed its item on no worker, existing or new.
C30_ErrorIffUnplaced ==
    [][PoolDispatch =>
          (pool_pc'.err = "RuntimeError" <=> Receivers(workers, workers') = {})]_vars

\* C21: Task.run() on an asynchronous item fails: the call raises an error and
\* gives its caller no return value.
C21_RunOnAsyncItemRaises ==
    [][\A t \in Tasks : (TaskRun(t) /\ IsAsync(tasks, t)) =>
          /\ raised' = "RuntimeError"
          /\ returned' = PyNone]_vars

C23_AgingIsMonotone ==
    [][\A t \in Tasks :
          (/\ tasks[t].alive /\ tasks'[t].alive
           /\ tasks'[t].priority = tasks[t].priority
           /\ tasks'[t].enqueue_time = tasks[t].enqueue_time) =>
              /\ Priority(tasks, t, now) <= Priority(tasks', t, now')
              /\ Priority(tasks', t, now') =
                    tasks[t].priority + (now' - tasks[t].enqueue_time)]_vars

\* an item that has not been scheduled yet has waited in the pending queue and
\* its priority has grown above its base priority
C23_PendingItemHasAged ==
    \E t \in Tasks :
        /\ Pending(t)
        /\ now > tasks[t].enqueue_time
        /\ Priority(tasks, t, now) > tasks[t].priority

\* C22: the scheduler is a singleton: every get_instance call, whatever its
\* arguments, returns the one instance, and every push_task and push_chain
\* call goes to that instance, push_task leaving its item in the instance's
\* pending queue.
C22_OneSchedulerForAll ==
    [][/\ \A mw \in {PyNone, PyInt(MaxWorkers)}, amt \in TimeoutArgs :
             GetInstance(mw, PyInt(MaxAsyncWorkers), amt) =>
                 /\ instance'.id # NoInstance
                 /\ returned' = PyInstance(instance'.id)
                 /\ instance.id # NoInstance => instance' = instance
       /\ \A t \in Tasks : PushTask(t) =>
             /\ instance'.id # NoInstance
             /\ instance.id # NoInstance => instance' = instance
             /\ \E i \in 1..Len(pq') : pq'[i].task = t
       /\ PushChainCall =>
             /\ instance'.id # NoInstance
             /\ instance.id # NoInstance => instance' = instance]_vars

\* the spellings of the seconds and of the minutes, of the hours and the days
SecondsUnits == {Word.s, Word.second, Word.seconds}
MinutesUnits == {Word.m, Word.minute, Word.minutes}
LongUnits == {Word.h, Word.hour, Word.hours, Word.d, Word.day, Word.days}

\* C25: covert_to_timeout accepts every "<integer> <unit>" whose unit is a
\* spelling of the seconds or of the minutes, and rejects every str whose unit
\* is a spelling of the hours or the days or that has not exactly two tokens.
C25_AcceptsSecondsAndMinutes ==
    [][(CallCovertToTimeout(timeout_arg) /\ timeout_arg.kind = "text") =>
          LET split_amt == Split(timeout_arg.n)
          IN IF Len(split_amt) # 2 THEN raised' = "Exception"
             ELSE /\ split_amt[2] \in LongUnits => raised' = "Exception"
                  /\ (/\ IsDigit(split_amt[1])
                      /\ split_amt[2] \in SecondsUnits \cup MinutesUnits)
                        => raised' = ""]_vars

\* C26: for every accepted "<n> <unit>", covert_to_timeout returns n when the
\* unit is a spelling of the seconds and 60 * n when it is one of the minutes.
C26_ConvertsToSeconds ==
    [][(CallCovertToTimeout(timeout_arg) /\ raised' = "") =>
          LET split_amt == Split(timeout_arg.n)
          IN /\ split_amt[2] \in SecondsUnits
                  => returned' = PyInt(ParseInt(split_amt[1]))
             /\ split_amt[2] \in MinutesUnits
                  => returned' = PyInt(60 * ParseInt(split_amt[1]))]_vars

\* ------------------------------------------------- claims C31..C40
\* C31: every tick of the scheduler's dispatch loop drains the pool's result
\* queue and applies the outcomes to their items, whether or not the pending
\* queue or the pool's inbound queue is empty: while the loops are scheduled,
\* every published outcome reaches its item.
C31_PublishedOutcomesAreRetrieved ==
    \A t \in Tasks :
        (\E i \in 1..Len(result_queue) : result_queue[i].task = t)
            ~> (GetReady(tasks, t) \/ ~sched_alive)

\* C35: a pool dispatch tick that finds the shared inbound queue empty
\* completes without waiting for an item: the tick that has begun always
\* comes to its end and the dispatcher loop goes on to its next tick.
C35_EmptyTickCompletes ==
    (pool_pc.pc = "get") ~> (pool_pc.pc = "top")

\* C36: idle timeout: a worker that waits on its empty inbound queue and
\* receives no item stops waiting and becomes STOPPED.
C36_IdleWorkerStopsItself ==
    \A w \in Workers :
        (workers[w].alive /\ workers[w].pc = "get" /\ workers[w].queue = <<>>)
            ~> (workers[w].state = "STOPPED" \/ workers[w].cur # NoTask)

\* C33: chain affinity: a worker that has executed an item with a next link
\* holds that successor in its buffer, and a worker with a buffered successor
\* executes it next, without reading its inbound queue.
C33_SuccessorRunsOnSameWorker ==
    [][\A w \in Workers :
          /\ (WorkerExec(w) /\ tasks[workers[w].cur].next # NoTask)
                => workers'[w].buffer = tasks[workers[w].cur].next
          /\ (/\ workers[w].alive /\ workers'[w].alive
              /\ workers[w].buffer # NoTask
              /\ workers[w].cur = NoTask /\ workers'[w].cur # NoTask)
                => /\ workers'[w].cur = workers[w].buffer
                   /\ workers'[w].queue = workers[w].queue]_vars

\* a worker has published the outcome of a link and is executing that link's
\* successor, taken from its buffer
C33_WorkerOnBufferedSuccessor ==
    \E w \in Workers :
        /\ workers[w].alive
        /\ workers[w].cur # NoTask
        /\ workers[w].buffer = workers[w].cur
        /\ tasks[workers[w].cur].past # NoTask
        /\ \E i \in 1..Len(result_queue) :
              result_queue[i].task = tasks[workers[w].cur].past

\* C38: a worker executes an item once per hand-off: when it has executed a
\* buffered successor that has no next link its buffer is empty, so that it
\* goes back to waiting on its inbound queue.
C38_BufferIsEmptiedAfterLastLink ==
    [][\A w \in Workers :
          (/\ WorkerExec(w)
           /\ workers[w].buffer = workers[w].cur
           /\ tasks[workers[w].cur].next = NoTask)
             => workers'[w].buffer = NoTask]_vars

\* C34: the execution of an item whose callable raises E does not end the
\* worker loop: the worker publishes exactly the tuple (item, None, E), is
\* IDLE again and at the top of its loop.
C34_RaisingItemIsPublishedAsError ==
    [][\A w \in Workers :
          (/\ WorkerExec(w)
           /\ Call(tasks[workers[w].cur].func, tasks[workers[w].cur].kwargs).kind = "raise")
             => /\ result_queue' =
                      Append(result_queue,
                             Outcome(workers[w].cur,
                                     Call(tasks[workers[w].cur].func,
                                          tasks[workers[w].cur].kwargs)))
                /\ workers'[w].alive
                /\ workers'[w].state = "IDLE"
                /\ workers'[w].pc = "top"]_vars

\* C39: resume() only ever wakes a worker: whatever calls of resume() were
\* made on it, a worker parks itself in STOPPED at the top of its loop only
\* when a stop() has requested it.
C39_ResumeNeverStops ==
    [][\A w \in Workers :
          (WorkerTop(w) /\ workers'[w].state = "STOPPED") => workers[w].stop_req]_vars

\* C32: in every interleaving of the pool's shedding with the workers, a
\* worker that has taken an item from its private queue is not terminated
\* before it has published that item's outcome.
C32_NoWorkerKilledWithItsItem ==
    [][\A w \in Workers :
          (workers[w].alive /\ ~workers'[w].alive) => workers[w].cur = NoTask]_vars

\* C37: whenever the pid set has another size at the end of an iteration of
\* the pool's dispatcher loop than at its beginning, also when the dispatch
\* ends in the saturation error, the pids are sent to the profiler.
C37_PoolChangesAreProfiled ==
    [][(PoolDispatch /\ Cardinality(pid_pool') # pool_pc.est)
          => profiled' = pid_pool']_vars

\* C40: every item in a worker's private queue or being executed by a worker
\* has the is_async flag of that worker.
C40_ItemsMatchWorkerKind ==
    \A w \in Workers : workers[w].alive =>
        \A t \in Range(workers[w].queue) \cup ({workers[w].cur} \ {NoTask}) :
            IsAsync(tasks, t) = workers[w].is_async
=============================================================================
